---- MODULE Spec2Model ----
(***************************************************************************)
(* Model of main.py: a FastAPI service that loads a two-column spreadsheet *)
(* of clients (load_data), replaces it on POST /upload (upload_file) and   *)
(* resolves a name to an id, exact first and fuzzy second, on              *)
(* GET /get_client_id (get_client_id).                                     *)
(*                                                                         *)
(* Text is a sequence of one-character strings, so that str.strip and      *)
(* str.replace are computed character by character.  Spreadsheet cells are *)
(* text cells.  The only whitespace character is the blank.                *)
(***************************************************************************)
EXTENDS Integers, Sequences, FiniteSets, TLC

\* disk               the files under UPLOAD_DIR, by path
\* client_dict        the global of line 34: None or an insertion-ordered dict
\* client_names_list  the global of line 34: None or a list
\* last               the response (or the exception) of the request served last
\* phase              history: how the process started and whether an upload
\*                    has been acknowledged since
\* up, lk             the position and the locals of an upload and of a lookup
\*                    in progress (at rest when requests are served one at a time)
VARIABLES disk, client_dict, client_names_list, last, phase, up, lk

vars == <<disk, client_dict, client_names_list, last, phase, up, lk>>

(***************************************************************************)
(* Bounds and input sets                                                   *)
(***************************************************************************)
\* the largest number of rows of a sheet
MaxRows == 2

\* the rows of a sheet: the raw cells under the name and the Id column
Rows ==
  { [name |-> <<" ", "{", "a", "}">>, Id |-> <<"1">>],
    [name |-> <<"a">>,                Id |-> <<"2", " ">>],
    [name |-> <<"{", " ", "a">>,      Id |-> <<" ", "3">>],
    [name |-> <<"{", "}">>,           Id |-> <<"4">>] }

\* the name parameter of get_client_id
Queries ==
  { <<>>, <<" ">>, <<"{", "}">>, <<"a">>, <<" ", "a">>, <<"{", " ", "a">>,
    <<"{", "b", "}">> }

\* the scores, out of 0..100, that the library may give a candidate
ScoreVals == {79, 80, 100}

Threshold == 80

data_file == "uploaded_files/meldepCustomers.xlsx"

\* os.path.join(UPLOAD_DIR, file.filename) for another file name
other_file == "uploaded_files/other.xlsx"

FileNames == {data_file, other_file}

(***************************************************************************)
(* Text operations                                                         *)
(***************************************************************************)
RECURSIVE lstrip(_)
lstrip(s) == IF s # <<>> /\ Head(s) = " " THEN lstrip(Tail(s)) ELSE s

RECURSIVE rstrip(_)
rstrip(s) ==
  IF s # <<>> /\ s[Len(s)] = " " THEN rstrip(SubSeq(s, 1, Len(s) - 1)) ELSE s

\* str.strip()
strip(s) == rstrip(lstrip(s))

IsNot(c, ch) == c # ch

\* str.replace(ch, "")
replace(s, ch) == SelectSeq(s, LAMBDA c : IsNot(c, ch))

\* lambda x: x.strip().replace("{", "").replace("}", "")
clean_name(x) == replace(replace(strip(x), "{"), "}")

\* lambda x: x.strip()
clean_id(x) == strip(x)

\* a variant that leaves the braces in the query
normalize_query_keep_braces(name) == strip(name)

\* name.strip().replace("{", "").replace("}", "")
normalize_query(name) == replace(replace(strip(name), "{"), "}")

(***************************************************************************)
(* Spreadsheet files                                                       *)
(***************************************************************************)
ColId == <<"I", "d">>

ColName == <<"n", "a", "m", "e">>

required_columns == {ColId, ColName}

GoodHeaders == { <<<<" ">> \o ColId, ColName \o <<" ">>>> }

BadHeaders == { <<<<"i", "d">>, ColName>>, <<ColId>> }

RowSeqs == UNION { [1..n -> Rows] : n \in 0..MaxRows }

Sheet(h, rs) == [exists |-> TRUE, parseable |-> TRUE, columns |-> h, rows |-> rs]

NoFile == [exists |-> FALSE, parseable |-> FALSE, columns |-> <<>>, rows |-> <<>>]

NotExcel == [exists |-> TRUE, parseable |-> FALSE, columns |-> <<>>, rows |-> <<>>]

GoodFiles == { Sheet(h, rs) : h \in GoodHeaders, rs \in RowSeqs }

BadFiles == { Sheet(h, <<>>) : h \in BadHeaders }

Files == GoodFiles \cup BadFiles \cup {NotExcel}

\* what is uploaded under a file name other than that of data_file
OtherFiles == { Sheet(<<ColId, ColName>>, <<[name |-> <<"b">>, Id |-> <<"5">>]>>) }

(***************************************************************************)
(* Python values: None, dict (insertion ordered), list                     *)
(***************************************************************************)
None == [isNone |-> TRUE, items |-> <<>>]

Obj(items) == [isNone |-> FALSE, items |-> items]

Range(s) == { s[i] : i \in 1..Len(s) }

Keys(d) == { d.items[i][1] : i \in 1..Len(d.items) }

\* d[k]
Get(d, k) == LET i == CHOOSE j \in 1..Len(d.items) : d.items[j][1] = k IN d.items[i][2]

\* bool(d): None and the empty dict are falsy
Truthy(d) == ~d.isNone /\ d.items # <<>>

\* a variant in which the first value of a key is kept
DictSetFirstWins(items, k, v) ==
  IF \E i \in 1..Len(items) : items[i][1] = k THEN items ELSE Append(items, <<k, v>>)

\* d[k] = v on an insertion-ordered dict
DictSet(items, k, v) ==
  IF \E i \in 1..Len(items) : items[i][1] = k
  THEN [i \in 1..Len(items) |-> IF items[i][1] = k THEN <<k, v>> ELSE items[i]]
  ELSE Append(items, <<k, v>>)

\* dict(zip(names, ids))
RECURSIVE DictZip(_, _)
DictZip(names, ids) ==
  IF names = <<>> THEN <<>>
  ELSE LET n == Len(names)
       IN DictSet(DictZip(SubSeq(names, 1, n - 1), SubSeq(ids, 1, n - 1)), names[n], ids[n])

\* list(d.keys())
KeyList(items) == [i \in 1..Len(items) |-> items[i][1]]

(***************************************************************************)
(* load_data                                                               *)
(***************************************************************************)
\* df.columns.str.strip()
StrippedColumns(f) == { strip(f.columns[i]) : i \in 1..Len(f.columns) }

LoadResult(st, d, l, found) ==
  [status |-> st, dict |-> d, names |-> l, expected |-> required_columns, found |-> found]

\* load_data() applied to the file found at data_file
load_data(f) ==
  IF ~f.exists THEN LoadResult("ok", None, None, {})
  ELSE IF ~f.parseable THEN LoadResult("ParseError", None, None, {})
  ELSE IF ~(required_columns \subseteq StrippedColumns(f))
       THEN LoadResult("KeyError", None, None, StrippedColumns(f))
  ELSE LET names == [i \in 1..Len(f.rows) |-> clean_name(f.rows[i].name)]
           ids   == [i \in 1..Len(f.rows) |-> clean_id(f.rows[i].Id)]
           d     == DictZip(names, ids)
       IN LoadResult("ok", Obj(d), Obj(KeyList(d)), StrippedColumns(f))

\* load_data() on each file that data_file may hold
Loaded == [f \in {NoFile} \cup Files \cup OtherFiles |-> load_data(f)]

(***************************************************************************)
(* get_client_id                                                           *)
(***************************************************************************)
\* the scores the library's scorer may assign to a list of candidates
ScoreLists(n) == [1..n -> ScoreVals]

\* a variant that keeps the last of the best candidates
extractOneLast(choices, sc) ==
  LET i == CHOOSE j \in 1..Len(choices) :
             /\ \A k \in 1..Len(choices) : sc[k] <= sc[j]
             /\ \A k \in (j + 1)..Len(choices) : sc[k] < sc[j]
  IN <<choices[i], sc[i]>>

\* process.extractOne(name, choices): max() over (choice, score), first maximum
extractOne(choices, sc) ==
  LET i == CHOOSE j \in 1..Len(choices) :
             /\ \A k \in 1..Len(choices) : sc[k] <= sc[j]
             /\ \A k \in 1..(j - 1) : sc[k] < sc[j]
  IN <<choices[i], sc[i]>>

Response(op, q, status, detail) ==
  [op |-> op, file |-> "", query |-> q, status |-> status, detail |-> detail,
   id |-> <<>>, name |-> <<>>, match_type |-> "", score |-> 0,
   scored |-> FALSE, scores |-> <<>>, expected |-> {}, found |-> {}]

NoRequest == Response("none", <<>>, 0, "")

NoDataResponse(q) == Response("get_client_id", q, 400, "No data available")

InvalidQueryResponse(q) == Response("get_client_id", q, 400, "Please provide a valid name")

\* lines 58-62: the id of the name, read from d59
ExactResponse(d59, q, name) ==
  IF name \in Keys(d59)
  THEN [Response("get_client_id", q, 200, "") EXCEPT
          !.id = Get(d59, name), !.name = name, !.match_type = "Exact"]
  ELSE Response("get_client_id", q, 500, "KeyError")

\* lines 65-74: the best candidate of l65 under the scores sc, its id read
\* from d68.  extractOne returns None on an empty list, which the unpacking
\* of line 65 cannot take.
FuzzyResponse(l65, d68, q, sc) ==
  IF l65.items = <<>>
  THEN [Response("get_client_id", q, 500, "TypeError") EXCEPT !.scored = TRUE]
  ELSE LET m == extractOne(l65.items, sc) IN
       IF m[2] >= Threshold
       THEN IF m[1] \in Keys(d68)
            THEN [Response("get_client_id", q, 200, "") EXCEPT
                    !.id = Get(d68, m[1]), !.name = m[1], !.match_type = "Fuzzy",
                    !.score = m[2], !.scored = TRUE, !.scores = sc]
            ELSE [Response("get_client_id", q, 500, "KeyError") EXCEPT
                    !.scored = TRUE, !.scores = sc]
       ELSE [Response("get_client_id", q, 404, "No close match found") EXCEPT
               !.scored = TRUE, !.scores = sc]

\* a variant that validates the query before looking at the dataset
resolve_validate_first(d48, d57, d59, l65, d68, q, sc) ==
  LET name == normalize_query(q) IN
  IF name = <<>> THEN InvalidQueryResponse(q)
  ELSE IF ~Truthy(d48) THEN NoDataResponse(q)
  ELSE IF name \in Keys(d57) THEN ExactResponse(d59, q, name)
  ELSE FuzzyResponse(l65, d68, q, sc)

\* a variant without the guard of line 48
resolve_no_data_check(d48, d57, d59, l65, d68, q, sc) ==
  LET name == normalize_query(q) IN
  IF name = <<>> THEN InvalidQueryResponse(q)
  ELSE IF name \in Keys(d57) THEN ExactResponse(d59, q, name)
  ELSE FuzzyResponse(l65, d68, q, sc)

\* a variant that tries the fuzzy match before the exact one
resolve_fuzzy_first(d48, d57, d59, l65, d68, q, sc) ==
  LET name == normalize_query(q) IN
  IF ~Truthy(d48) THEN NoDataResponse(q)
  ELSE IF name = <<>> THEN InvalidQueryResponse(q)
  ELSE IF FuzzyResponse(l65, d68, q, sc).status = 200
  THEN FuzzyResponse(l65, d68, q, sc)
  ELSE IF name \in Keys(d57) THEN ExactResponse(d59, q, name)
  ELSE FuzzyResponse(l65, d68, q, sc)

\* The body of get_client_id.  d48, d57, d59 and d68 are the values of the
\* global client_dict read at lines 48, 57, 59 and 68, l65 the value of the
\* global client_names_list read at line 65, q the query parameter and sc the
\* scores the library gives the candidates of l65.
resolve(d48, d57, d59, l65, d68, q, sc) ==
  LET name == normalize_query(q) IN
  IF ~Truthy(d48) THEN NoDataResponse(q)
  ELSE IF name = <<>> THEN InvalidQueryResponse(q)
  ELSE IF name \in Keys(d57) THEN ExactResponse(d59, q, name)
  ELSE FuzzyResponse(l65, d68, q, sc)

(***************************************************************************)
(* Requests served one at a time                                           *)
(***************************************************************************)
\* no upload in progress
UpIdle == [pc |-> "idle", dict |-> None, names |-> None, file |-> ""]

\* no lookup in progress
LkIdle ==
  [pc |-> "idle", q |-> <<>>, d48 |-> None, d57 |-> None, d59 |-> None,
   l65 |-> None, d68 |-> None, sc |-> <<>>]

\* module import: os.makedirs, then client_dict, client_names_list = load_data().
\* A file left at data_file by an earlier process is loaded; a file that
\* load_data cannot load makes the import fail, so no service starts on it.
Init ==
  /\ \E f \in {NoFile} \cup GoodFiles :
       /\ disk = [fn \in FileNames |-> IF fn = data_file THEN f ELSE NoFile]
       /\ client_dict = Loaded[f].dict
       /\ client_names_list = Loaded[f].names
       /\ phase = IF f.exists THEN "started_loaded" ELSE "started_empty"
  /\ last = NoRequest
  /\ up = UpIdle
  /\ lk = LkIdle

\* what upload_file answers: the acknowledgment of line 44, or the exception
\* that load_data raised and the handler let through
UploadResponse(fn, r) ==
  IF r.status = "ok"
  THEN [Response("upload", <<>>, 200, "File uploaded successfully") EXCEPT !.file = fn]
  ELSE [Response("upload", <<>>, 500, r.status) EXCEPT
          !.file = fn, !.expected = r.expected, !.found = r.found]

\* a variant that stores what load_data returned before it can fail
upload_file_clear_on_error(fn, f) ==
  LET newdisk == [disk EXCEPT ![fn] = f]
      r == Loaded[newdisk[data_file]]
  IN /\ disk' = newdisk
     /\ client_dict' = r.dict
     /\ client_names_list' = r.names
     /\ phase' = IF r.status = "ok" THEN "uploaded" ELSE phase
     /\ last' = UploadResponse(fn, r)
     /\ UNCHANGED <<up, lk>>

\* POST /upload, the whole handler: write the bytes under the uploaded file's
\* own name, reload from data_file, answer
upload_file(fn, f) ==
  LET newdisk == [disk EXCEPT ![fn] = f]
      r == Loaded[newdisk[data_file]]
  IN /\ disk' = newdisk
     /\ IF r.status = "ok"
        THEN /\ client_dict' = r.dict
             /\ client_names_list' = r.names
             /\ phase' = "uploaded"
        ELSE UNCHANGED <<client_dict, client_names_list, phase>>
     /\ last' = UploadResponse(fn, r)
     /\ UNCHANGED <<up, lk>>

Upload ==
  \/ \E f \in Files : upload_file(data_file, f)
  \/ \E f \in OtherFiles : upload_file(other_file, f)

\* GET /get_client_id, the whole handler
get_client_id(q) ==
  /\ \E sc \in ScoreLists(IF client_names_list.isNone THEN 0
                          ELSE Len(client_names_list.items)) :
       last' = resolve(client_dict, client_dict, client_dict, client_names_list,
                       client_dict, q, sc)
  /\ UNCHANGED <<disk, client_dict, client_names_list, phase, up, lk>>

Lookup == \E q \in Queries : get_client_id(q)

Next == Upload \/ Lookup

Spec == Init /\ [][Next]_vars

(***************************************************************************)
(* Requests that overlap.  upload_file is a coroutine on the event loop,   *)
(* get_client_id a plain function that the framework runs on a worker      *)
(* thread; no lock guards the two globals.  A step of the lookup is one    *)
(* read of a global, with the local computation that follows it.           *)
(***************************************************************************)
ConcFiles ==
  { Sheet(<<ColId, ColName>>, <<[name |-> <<"a">>, Id |-> <<"1">>],
                                [name |-> <<"a", "b">>, Id |-> <<"2">>]>>),
    Sheet(<<ColId, ColName>>, <<[name |-> <<"a">>, Id |-> <<"3">>]>>),
    Sheet(<<ColId>>, <<>>) }

ConcQueries == { <<" ">>, <<"a">>, <<"a", "c">> }

ConcLoaded == [f \in {NoFile} \cup ConcFiles |-> load_data(f)]

InitConc ==
  /\ \E f \in {NoFile} \cup {g \in ConcFiles : ConcLoaded[g].status = "ok"} :
       /\ disk = [fn \in FileNames |-> IF fn = data_file THEN f ELSE NoFile]
       /\ client_dict = ConcLoaded[f].dict
       /\ client_names_list = ConcLoaded[f].names
       /\ phase = IF f.exists THEN "started_loaded" ELSE "started_empty"
  /\ last = NoRequest
  /\ up = UpIdle
  /\ lk = LkIdle

\* lines 38-40: the bytes are written under the uploaded file's name
UploadWrite(fn, f) ==
  /\ up.pc = "idle"
  /\ disk' = [disk EXCEPT ![fn] = f]
  /\ up' = [UpIdle EXCEPT !.pc = "load", !.file = fn]
  /\ UNCHANGED <<client_dict, client_names_list, last, phase, lk>>

\* line 43, the call: load_data() reads data_file; an exception ends the request
UploadLoad ==
  /\ up.pc = "load"
  /\ LET r == ConcLoaded[disk[data_file]] IN
       IF r.status = "ok"
       THEN /\ up' = [up EXCEPT !.pc = "store", !.dict = r.dict, !.names = r.names]
            /\ UNCHANGED last
       ELSE /\ up' = UpIdle
            /\ last' = UploadResponse(up.file, r)
  /\ UNCHANGED <<disk, client_dict, client_names_list, phase, lk>>

\* line 43, the stores of the unpacked pair, and the answer of line 44.  The
\* two stores are one step: no other thread is let in between them here, so
\* a lookup sees the old pair or the new pair at each of its reads.
UploadStore ==
  /\ up.pc = "store"
  /\ client_dict' = up.dict
  /\ client_names_list' = up.names
  /\ phase' = "uploaded"
  /\ last' = [Response("upload", <<>>, 200, "File uploaded successfully")
                EXCEPT !.file = up.file]
  /\ up' = UpIdle
  /\ UNCHANGED <<disk, lk>>

\* the lookup answers from the reads it has made and is over
LookupReturn(l) ==
  /\ last' = resolve(l.d48, l.d57, l.d59, l.l65, l.d68, l.q, l.sc)
  /\ lk' = [l EXCEPT !.pc = "done"]

\* lines 48-54: read client_dict, clean the query
Lookup48(q) ==
  /\ lk.pc \in {"idle", "done"}
  /\ LET l == [LkIdle EXCEPT !.q = q, !.d48 = client_dict] IN
       IF ~Truthy(client_dict) \/ normalize_query(q) = <<>>
       THEN LookupReturn(l)
       ELSE lk' = [l EXCEPT !.pc = "l57"] /\ UNCHANGED last
  /\ UNCHANGED <<disk, client_dict, client_names_list, phase, up>>

\* line 57: read client_dict, test the name
Lookup57 ==
  /\ lk.pc = "l57"
  /\ lk' = [lk EXCEPT !.d57 = client_dict,
                       !.pc = IF normalize_query(lk.q) \in Keys(client_dict)
                              THEN "l59" ELSE "l65"]
  /\ UNCHANGED <<disk, client_dict, client_names_list, last, phase, up>>

\* line 59: read client_dict, take the id of the name
Lookup59 ==
  /\ lk.pc = "l59"
  /\ LookupReturn([lk EXCEPT !.d59 = client_dict])
  /\ UNCHANGED <<disk, client_dict, client_names_list, phase, up>>

\* lines 65-66: read client_names_list, score it, test the best score
Lookup65 ==
  /\ lk.pc = "l65"
  /\ \E sc \in ScoreLists(Len(client_names_list.items)) :
       LET l == [lk EXCEPT !.l65 = client_names_list, !.sc = sc] IN
       IF client_names_list.items # <<>>
          /\ extractOne(client_names_list.items, sc)[2] >= Threshold
       THEN lk' = [l EXCEPT !.pc = "l68"] /\ UNCHANGED last
       ELSE LookupReturn(l)
  /\ UNCHANGED <<disk, client_dict, client_names_list, phase, up>>

\* line 68: read client_dict, take the id of the best candidate
Lookup68 ==
  /\ lk.pc = "l68"
  /\ LookupReturn([lk EXCEPT !.d68 = client_dict])
  /\ UNCHANGED <<disk, client_dict, client_names_list, phase, up>>

NextConc ==
  \/ \E f \in ConcFiles : UploadWrite(data_file, f)
  \/ UploadLoad
  \/ UploadStore
  \/ \E q \in ConcQueries : Lookup48(q)
  \/ Lookup57
  \/ Lookup59
  \/ Lookup65
  \/ Lookup68

SpecConc == InitConc /\ [][NextConc]_vars

(***************************************************************************)
(* What the properties speak of, said without the operators of the model   *)
(***************************************************************************)
NonBlanks(s) == { i \in 1..Len(s) : s[i] # " " }

Least(S) == CHOOSE i \in S : \A j \in S : i <= j

Greatest(S) == CHOOSE i \in S : \A j \in S : j <= i

\* s without its leading and trailing blanks
Trimmed(s) ==
  IF NonBlanks(s) = {} THEN <<>> ELSE SubSeq(s, Least(NonBlanks(s)), Greatest(NonBlanks(s)))

NotBrace(c) == c \notin {"{", "}"}

\* trim, then delete every brace
Normalized(s) == SelectSeq(Trimmed(s), NotBrace)

IsLookup == last.op = "get_client_id"

IsUpload == last.op = "upload"

DatasetEmpty == client_dict.isNone \/ client_dict.items = <<>>

StoredNames == { p[1] : p \in Range(client_dict.items) }

\* the id that the mapping holds for a stored name
IdOf(n) == CHOOSE v \in { p[2] : p \in Range(client_dict.items) } :
             <<n, v>> \in Range(client_dict.items)

NoDataError == last.status = 400 /\ last.detail = "No data available"

InvalidQueryError == last.status = 400 /\ last.detail = "Please provide a valid name"

ExactAnswer(n) ==
  /\ last.status = 200
  /\ last.match_type = "Exact"
  /\ last.name = n
  /\ last.id = IdOf(n)
  /\ ~last.scored

\* the sheet has each required column, under its trimmed name
HasColumns(f) ==
  /\ \E i \in 1..Len(f.columns) : Trimmed(f.columns[i]) = <<"I", "d">>
  /\ \E i \in 1..Len(f.columns) : Trimmed(f.columns[i]) = <<"n", "a", "m", "e">>

LacksColumns(f) == f.exists /\ f.parseable /\ ~HasColumns(f)

Loadable(f) == f.exists /\ f.parseable /\ HasColumns(f)

RowsNamed(f, n) == { i \in 1..Len(f.rows) : Normalized(f.rows[i].name) = n }

(***************************************************************************)
(* C1                                                                      *)
(***************************************************************************)
\* C1, as stated: on a loaded non-empty dataset, a query whose normalization
\* (trim, then delete the braces) is a stored name is answered Exact, with
\* that name's id and the normalized query as name, the scorer not consulted.
C1_ExactWins ==
  (IsLookup /\ ~DatasetEmpty /\ Normalized(last.query) \in StoredNames)
    => ExactAnswer(Normalized(last.query))

\* C1, amended: the same for the queries whose normalization is not empty.
\* A sheet row whose name cleans to the empty text stores the empty name,
\* and the query that normalizes to it is refused at line 53.
C1_ExactWinsNonEmpty ==
  (IsLookup /\ ~DatasetEmpty /\ Normalized(last.query) \in StoredNames
     /\ Normalized(last.query) # <<>>)
    => ExactAnswer(Normalized(last.query))

\* an Exact answer to a query that normalization changed, another candidate stored
C1_Witness ==
  /\ IsLookup /\ last.match_type = "Exact"
  /\ last.query # last.name
  /\ Len(client_names_list.items) >= 2

(***************************************************************************)
(* C2                                                                      *)
(***************************************************************************)
\* C2: a name stored in the dataset, given verbatim as the query, is answered
\* Exact with the id the mapping holds for it.  Stated for the stored names
\* that are not empty (the empty query is C4's).
C2_StoredNameIsExact ==
  (IsLookup /\ last.query \in StoredNames /\ last.query # <<>>)
    => (last.status = 200 /\ last.match_type = "Exact" /\ last.id = IdOf(last.query))

(***************************************************************************)
(* C3                                                                      *)
(***************************************************************************)
\* C3: with no dataset loaded (None, or no entries) every query, the empty,
\* the blank and the brace-only ones included, gets the no-data error.
C3_NoDataFirst ==
  (IsLookup /\ DatasetEmpty) => (NoDataError /\ ~last.scored /\ last.match_type = "")

\* the no-data error for a brace-only query on a dataset loaded without entries
C3_Witness ==
  /\ IsLookup /\ NoDataError
  /\ ~client_dict.isNone /\ client_dict.items = <<>>
  /\ last.query = <<"{", "}">>

(***************************************************************************)
(* C4                                                                      *)
(***************************************************************************)
\* C4: on a non-empty dataset a query whose normalization is empty gets the
\* invalid-query error; no exact lookup and no scoring is made for it.
C4_EmptyQueryRejected ==
  (IsLookup /\ ~DatasetEmpty /\ Normalized(last.query) = <<>>)
    => (InvalidQueryError /\ ~last.scored /\ last.match_type = "")

\* a brace-only query refused although the empty name is stored
C4_Witness ==
  /\ IsLookup /\ InvalidQueryError
  /\ last.query = <<"{", "}">>
  /\ <<>> \in StoredNames

(***************************************************************************)
(* C5                                                                      *)
(***************************************************************************)
BestScore(sc) == CHOOSE x \in Range(sc) : \A y \in Range(sc) : y <= x

FirstBest(sc) == Least({ i \in 1..Len(sc) : sc[i] = BestScore(sc) })

\* C5: on a non-empty dataset, a valid query with no exact match is answered
\* Fuzzy exactly when the highest score over the candidate list is >= 80,
\* with the first highest-scoring candidate, its id and that score; NotFound
\* (404) otherwise.
C5_FuzzyAtThreshold ==
  (IsLookup /\ ~DatasetEmpty /\ Normalized(last.query) # <<>>
     /\ Normalized(last.query) \notin StoredNames)
    => /\ last.scored
       /\ Len(last.scores) = Len(client_names_list.items)
       /\ IF BestScore(last.scores) >= 80
          THEN /\ last.status = 200
               /\ last.match_type = "Fuzzy"
               /\ last.name = client_names_list.items[FirstBest(last.scores)]
               /\ last.id = IdOf(last.name)
               /\ last.score = BestScore(last.scores)
               /\ last.score >= 80
          ELSE last.status = 404 /\ last.match_type = ""

\* a Fuzzy answer where two candidates tie at the best score
C5_Witness ==
  /\ IsLookup /\ last.match_type = "Fuzzy"
  /\ Len(last.scores) = 2
  /\ last.scores[1] = last.scores[2]
  /\ last.name = client_names_list.items[1]

(***************************************************************************)
(* C6                                                                      *)
(***************************************************************************)
\* C6: an upload that is acknowledged has written its bytes to the path the
\* loader reads, and the dataset in memory is the one parsed from the
\* uploaded file.
C6_LatestUploadLoaded ==
  (IsUpload /\ last.status = 200)
    => /\ disk[data_file] = disk[last.file]
       /\ client_dict = Loaded[disk[last.file]].dict
       /\ client_names_list = Loaded[disk[last.file]].names

(***************************************************************************)
(* C7                                                                      *)
(***************************************************************************)
\* C7, as stated: until the first acknowledged upload of the process the
\* dataset is empty and every lookup gets the no-data error, whatever is on
\* disk.
C7_EmptyUntilUpload ==
  (phase # "uploaded") => (DatasetEmpty /\ (IsLookup => NoDataError))

\* C7, amended: the same when no file is at data_file as the process starts;
\* a file left there by an earlier process is loaded at import.
C7_EmptyUntilUploadFromNoFile ==
  (phase = "started_empty") => (client_dict.isNone /\ (IsLookup => NoDataError))

\* a lookup refused for want of data after an upload that failed
C7_Witness ==
  /\ phase = "started_empty"
  /\ IsLookup /\ NoDataError
  /\ disk[data_file].exists

(***************************************************************************)
(* C8                                                                      *)
(***************************************************************************)
\* C8: an upload after which the file at data_file lacks the Id or the name
\* column (by trimmed name) fails with the error that names the expected and
\* the found columns, and leaves client_dict and client_names_list as they
\* were.
C8_MissingColumns ==
  [][ (last'.op = "upload" /\ LacksColumns(disk'[data_file]))
        => /\ last'.status = 500
           /\ last'.detail = "KeyError"
           /\ last'.expected = { <<"I", "d">>, <<"n", "a", "m", "e">> }
           /\ last'.found =
                { Trimmed(disk'[data_file].columns[i]) :
                    i \in 1..Len(disk'[data_file].columns) }
           /\ client_dict' = client_dict
           /\ client_names_list' = client_names_list ]_vars

\* a failed upload with a dataset in memory that it left alone
C8_Witness ==
  /\ IsUpload /\ last.status = 500 /\ last.detail = "KeyError"
  /\ last.found # {}
  /\ ~DatasetEmpty

(***************************************************************************)
(* C10                                                                     *)
(***************************************************************************)
\* C10: either no dataset is loaded, or client_names_list is the keys of
\* client_dict, each name once and in the order of its first row in the
\* file, and the mapping gives each name the trimmed id of its last row.
C10_NamesAreKeys ==
  LET f  == disk[data_file]
      d  == client_dict.items
      l  == client_names_list.items
  IN IF client_dict.isNone THEN client_names_list.isNone
     ELSE /\ ~client_names_list.isNone
          /\ Len(l) = Len(d)
          /\ \A i \in 1..Len(l) : l[i] = d[i][1]
          /\ \A i, j \in 1..Len(l) : l[i] = l[j] => i = j
          /\ Loadable(f) =>
               /\ Range(l) = { Normalized(f.rows[i].name) : i \in 1..Len(f.rows) }
               /\ \A i, j \in 1..Len(l) :
                    i < j => Least(RowsNamed(f, l[i])) < Least(RowsNamed(f, l[j]))
               /\ \A i \in 1..Len(d) :
                    d[i][2] = Trimmed(f.rows[Greatest(RowsNamed(f, d[i][1]))].Id)

\* a dataset loaded from two rows that carry one name and two ids
C10_Witness ==
  LET f == disk[data_file] IN
  /\ IsUpload /\ last.status = 200 /\ Loadable(f)
  /\ Len(f.rows) = 2
  /\ Normalized(f.rows[1].name) = Normalized(f.rows[2].name)
  /\ f.rows[1].name # f.rows[2].name
  /\ Len(client_names_list.items) = 1

(***************************************************************************)
(* C9                                                                      *)
(***************************************************************************)
\* C9: a lookup that overlaps an upload answers from one dataset: the id
\* lookup of the chosen fuzzy candidate does not fail, and the candidate
\* list it scored is the list of the mapping it took the id from.
C9_OneDataset ==
  (lk.pc = "done" /\ IsLookup /\ last.scored)
    => /\ last.status # 500
       /\ last.match_type = "Fuzzy" =>
            /\ ~lk.l65.isNone
            /\ Len(lk.l65.items) = Len(lk.d68.items)
            /\ \A i \in 1..Len(lk.l65.items) : lk.l65.items[i] = lk.d68.items[i][1]

====
